---- MODULE Spec2Model ----
(***************************************************************************)
(* Book catalog browser (src/scripts.js): filtering, pagination, the       *)
(* rendered list, the overlays and the theme, as one state machine.        *)
(* Strings that the code inspects character by character (titles) are      *)
(* sequences of one-character strings; keys and ids are atoms.             *)
(***************************************************************************)
EXTENDS Integers, Sequences, FiniteSets, TLC

\* ------------------------------------------------------------------ bounds
MaxBooks == 4        \* longest catalog
MaxPage == 3         \* show-more is not clicked once page has reached this
MaxPath == 2         \* nodes on a click's event path
PageSize == 2        \* entries per page in the catalogs explored

\* scripts.js:4, the page size imported from data.js
BOOKS_PER_PAGE == PageSize

\* ------------------------------------------------------- string primitives
Min(a, b) == IF a < b THEN a ELSE b
Max(a, b) == IF a > b THEN a ELSE b

\* String.prototype.toLowerCase on one character
LowerChar(c) ==
  CASE c = "D" -> "d"
    [] c = "U" -> "u"
    [] c = "N" -> "n"
    [] OTHER -> c

toLowerCase(s) == [i \in 1..Len(s) |-> LowerChar(s[i])]

IsSpace(c) == c = " "

RECURSIVE trimStart(_)
trimStart(s) ==
  IF s # <<>> /\ IsSpace(Head(s)) THEN trimStart(Tail(s)) ELSE s

RECURSIVE trimEnd(_)
trimEnd(s) ==
  IF s # <<>> /\ IsSpace(s[Len(s)]) THEN trimEnd(SubSeq(s, 1, Len(s) - 1)) ELSE s

\* String.prototype.trim
trim(s) == trimEnd(trimStart(s))

\* String.prototype.includes: t occurs in s at some offset
includes(s, t) ==
  \E k \in 0..(Len(s) - Len(t)) : SubSeq(s, k + 1, k + Len(t)) = t

\* Array.prototype.slice(start, end) for 0 <= start <= end
slice(arr, start, end) == SubSeq(arr, Min(start, Len(arr)) + 1, Min(end, Len(arr)))

\* mutant: Array.prototype.splice, which removes the window from the array
afterSlice_splices(arr, start, end) ==
  SubSeq(arr, 1, Min(start, Len(arr))) \o SubSeq(arr, Min(end, Len(arr)) + 1, Len(arr))

\* the array itself once slice has returned: slice copies, it removes nothing
afterSlice(arr, start, end) == arr

\* ------------------------------------------------------------ catalog data
\* data.js is not part of the sources; the entries below stand for it.
PoolTitles ==
  << <<"D", "u", "n">>, <<"n", "U">>, <<"U", " ", "d">>, <<"d", "u">>, <<"N">> >>
PoolAuthors == <<"a1", "a2">>
PoolGenres == << <<"g1">>, <<"g2", "g1">>, <<>> >>

Cyc(table, i) == table[((i - 1) % Len(table)) + 1]

BookId(i) == 100 - 7 * i

Book(i) ==
  [id |-> BookId(i), title |-> Cyc(PoolTitles, i),
   author |-> Cyc(PoolAuthors, i), genres |-> Cyc(PoolGenres, i)]

\* the entries at the positions of S, in increasing position
RECURSIVE Pick(_, _)
Pick(S, i) ==
  IF i > MaxBooks THEN <<>>
  ELSE IF i \in S THEN <<Book(i)>> \o Pick(S, i + 1)
  ELSE Pick(S, i + 1)

Catalogs == {Pick(S, 1) : S \in SUBSET (1..MaxBooks)}

authors == {"a1", "a2"}
genres == {"g1", "g2"}
\* an id no entry has
UnknownId == BookId(0)

\* ------------------------------------------------------------------- state
VARIABLES
  books,               \* the catalog (data.js books)
  page,                \* scripts.js:7
  matches,             \* scripts.js:8
  listItems,           \* children of [data-list-items]
  listMessageShow,     \* [data-list-message] has class list__message_show
  listButtonCount,     \* the number in the [data-list-button] label
  listButtonDisabled,  \* [data-list-button].disabled
  matchesIsBooks,      \* matches and books are one and the same array object
  searchOverlayOpen,   \* [data-search-overlay].open
  settingsOverlayOpen, \* [data-settings-overlay].open
  listActiveOpen,      \* [data-list-active].open
  listActive,          \* what the detail overlay shows: <<>> or <<book>>
  themeValue,          \* [data-settings-theme].value
  colorDark,           \* --color-dark
  colorLight,          \* --color-light
  ambient,             \* the host's matchMedia: "absent", "dark" or "light"
  formFields,          \* names of the search form's fields
  filters,             \* criteria of the last search submit: <<>> or <<f>>
  windows,             \* (start, end) of each show-more since the last reset
  error                \* what the last handler threw: "none" or "TypeError"

vars ==
  <<books, page, matches, listItems, listMessageShow, listButtonCount,
    listButtonDisabled, matchesIsBooks, searchOverlayOpen, settingsOverlayOpen, listActiveOpen, listActive,
    themeValue, colorDark, colorLight, ambient, formFields, filters,
    windows, error>>

catalogVars ==
  <<page, matches, listItems, listMessageShow, listButtonCount,
    listButtonDisabled, matchesIsBooks, filters, windows>>
themeVars == <<themeValue, colorDark, colorLight>>
overlayVars == <<searchOverlayOpen, settingsOverlayOpen, listActiveOpen, listActive>>
envVars == <<books, ambient, formFields>>
hostVars == <<ambient, formFields>>

\* ------------------------------------------------------------ form inputs
FieldNames == {"title", "author", "genre"}
SearchTitles ==
  {<<>>, <<" ">>, <<"d", "u">>, <<"D", "U">>, <<" ", "d", "u">>, <<"u", " ">>}
AuthorOptions == {"any"} \cup authors
GenreOptions == {"any"} \cup genres
Themes == {"day", "night"}
Signals == {"absent", "dark", "light"}

\* what the user entered in the three search controls
Entered ==
  {[title |-> t, author |-> a, genre |-> g] :
     t \in SearchTitles, a \in AuthorOptions, g \in GenreOptions}

\* Object.fromEntries(new FormData(form)): one key per field the form has
FormData(fields, entered) == [k \in fields |-> entered[k]]

Has(f, k) == k \in DOMAIN f

\* ----------------------------------------------------------- Filter Engine
\* the for-of loop over book.genres, from genreMatch as found so far
RECURSIVE genreLoop(_, _, _)
genreLoop(bookGenres, f, genreMatch) ==
  IF bookGenres = <<>> \/ genreMatch THEN genreMatch
  ELSE genreLoop(Tail(bookGenres), f,
                 Has(f, "genre") /\ Head(bookGenres) = f.genre)

\* mutant: the sentinel "any" is not recognised
genreMatches_noSentinel(book, f) == genreLoop(book.genres, f, FALSE)

genreMatches(book, f) ==
  genreLoop(book.genres, f, Has(f, "genre") /\ f.genre = "any")

titleMatches(book, f) ==
  \/ trim(f.title) = <<>>
  \/ includes(toLowerCase(book.title), toLowerCase(f.title))

authorMatches(book, f) ==
  \/ Has(f, "author") /\ f.author = "any"
  \/ Has(f, "author") /\ book.author = f.author

\* mutant: the author and genre constraints joined by "or"
bookPasses_eitherOf(book, f) ==
  titleMatches(book, f) /\ (authorMatches(book, f) \/ genreMatches(book, f))

\* the callback given to books.filter; f.title is defined
bookPasses(book, f) ==
  titleMatches(book, f) /\ authorMatches(book, f) /\ genreMatches(book, f)

\* filters.title.trim() throws a TypeError on the first book when title is undefined
applyFilters(f) ==
  IF books # <<>> /\ ~Has(f, "title")
  THEN [threw |-> TRUE, value |-> <<>>]
  ELSE [threw |-> FALSE, value |-> SelectSeq(books, LAMBDA b : bookPasses(b, f))]

\* ---------------------------------------------------------- Render Adapter
createBookElement(book) ==
  [preview |-> book.id, title |-> book.title, author |-> book.author]

renderBooks(entries) == [i \in 1..Len(entries) |-> createBookElement(entries[i])]

\* mutant: the new elements are put before the ones already there
appendElements_prepends(children, elements) == elements \o children

appendElements(children, elements) == children \o elements

\* the list's children after createBookList, given its children before
createBookList(children, m) ==
  appendElements(children, renderBooks(slice(m, 0, BOOKS_PER_PAGE)))

\* mutant: the list container is not emptied
clearList_kept(children) == children

\* innerHTML = "" on the list container
clearList(children) == <<>>

remainingBooks(catalog) == Max(Len(catalog) - BOOKS_PER_PAGE, 0)

\* -------------------------------------------------------- Theme Controller
\* mutant: the dark colour does not follow the theme
darkColorOf_fixed(theme) == "10, 10, 20"

darkColorOf(theme) == IF theme = "night" THEN "255, 255, 255" ELSE "10, 10, 20"
lightColorOf(theme) == IF theme = "night" THEN "10, 10, 20" ELSE "255, 255, 255"

setThemeColors(theme) ==
  /\ themeValue' = theme
  /\ colorDark' = darkColorOf(theme)
  /\ colorLight' = lightColorOf(theme)

\* mutant: a host without matchMedia is taken to prefer dark
detectTheme_absentIsDark(signal) == IF signal # "light" THEN "night" ELSE "day"

detectTheme(signal) == IF signal # "absent" /\ signal = "dark" THEN "night" ELSE "day"

\* ------------------------------------------------------------------- Init
\* the state once initialize() and setupEventListeners() have run
Loaded(catalogs, signals, fieldSets) ==
  /\ books \in catalogs
  /\ ambient \in signals
  /\ formFields \in fieldSets
  /\ page = 1
  /\ matches = books
  /\ listItems = createBookList(<<>>, books)
  /\ listMessageShow = FALSE
  /\ listButtonCount = remainingBooks(books)
  /\ listButtonDisabled = FALSE
  /\ matchesIsBooks = TRUE
  /\ searchOverlayOpen = FALSE
  /\ settingsOverlayOpen = FALSE
  /\ listActiveOpen = FALSE
  /\ listActive = <<>>
  /\ themeValue = detectTheme(ambient)
  /\ colorDark = darkColorOf(detectTheme(ambient))
  /\ colorLight = lightColorOf(detectTheme(ambient))
  /\ filters = <<>>
  /\ windows = <<>>
  /\ error = "none"

\* ------------------------------------------------------ Interaction Router
\* mutant: the message is also shown for a single result
updateBookList_messageForOne(result) ==
  /\ page' = 1
  /\ matches' = result
  /\ listMessageShow' = (Len(result) <= 1)
  /\ listItems' = createBookList(clearList(listItems), result)
  /\ listButtonCount' = remainingBooks(books)
  /\ matchesIsBooks' = FALSE
  /\ searchOverlayOpen' = FALSE
  /\ windows' = <<>>

\* mutant: the label counts what remains of the search result
updateBookList_countsMatches(result) ==
  /\ page' = 1
  /\ matches' = result
  /\ listMessageShow' = (Len(result) < 1)
  /\ listItems' = createBookList(clearList(listItems), result)
  /\ listButtonCount' = remainingBooks(result)
  /\ matchesIsBooks' = FALSE
  /\ searchOverlayOpen' = FALSE
  /\ windows' = <<>>

\* mutant: the page is not reset
updateBookList_keepsPage(result) ==
  /\ page' = page
  /\ matches' = result
  /\ listMessageShow' = (Len(result) < 1)
  /\ listItems' = createBookList(clearList(listItems), result)
  /\ listButtonCount' = remainingBooks(books)
  /\ matchesIsBooks' = FALSE
  /\ searchOverlayOpen' = FALSE
  /\ windows' = <<>>

updateBookList(result) ==
  /\ page' = 1
  /\ matches' = result
  /\ listMessageShow' = (Len(result) < 1)
  /\ listItems' = createBookList(clearList(listItems), result)
  /\ listButtonCount' = remainingBooks(books)
  /\ matchesIsBooks' = FALSE
  /\ searchOverlayOpen' = FALSE
  /\ windows' = <<>>

handleSearchFormSubmit(entered) ==
  LET f == FormData(formFields, entered)
      result == applyFilters(f)
  IN /\ filters' = <<f>>
     /\ IF result.threw
        THEN /\ error' = "TypeError"
             /\ UNCHANGED <<page, matches, listMessageShow, listItems,
                            listButtonCount, matchesIsBooks, searchOverlayOpen,
                            windows>>
        ELSE /\ error' = "none"
             /\ updateBookList(result.value)
     /\ UNCHANGED <<listButtonDisabled, settingsOverlayOpen, listActiveOpen, listActive>>
     /\ UNCHANGED <<themeVars, envVars>>

\* mutant: the window starts at the page already drawn
showMoreStart_currentPage(p) == (p - 1) * BOOKS_PER_PAGE

\* mutant: the window starts one entry early
showMoreStart_oneEarly(p) == p * BOOKS_PER_PAGE - 1

showMoreStart(p) == p * BOOKS_PER_PAGE
\* mutant: the window ends one entry early
showMoreEnd_oneShort(p) == (p + 1) * BOOKS_PER_PAGE - 1

showMoreEnd(p) == (p + 1) * BOOKS_PER_PAGE

\* a disabled button receives no click
handleShowMoreButtonClick ==
  /\ page < MaxPage
  /\ ~listButtonDisabled
  /\ LET start == showMoreStart(page)
         end == showMoreEnd(page)
     IN /\ listItems' = appendElements(listItems, renderBooks(slice(matches, start, end)))
        /\ matches' = afterSlice(matches, start, end)
        /\ windows' = Append(windows, <<start, end>>)
  /\ books' = IF matchesIsBooks THEN matches' ELSE books
  /\ page' = page + 1
  /\ error' = "none"
  /\ UNCHANGED <<listMessageShow, listButtonCount, listButtonDisabled,
                 matchesIsBooks, filters>>
  /\ UNCHANGED <<overlayVars, themeVars, hostVars>>

handleSettingsFormSubmit(theme) ==
  /\ setThemeColors(theme)
  /\ settingsOverlayOpen' = FALSE
  /\ error' = "none"
  /\ UNCHANGED <<searchOverlayOpen, listActiveOpen, listActive>>
  /\ UNCHANGED <<catalogVars, envVars>>

\* books.find: <<book>> for the first entry with that id, <<>> for undefined
findActiveBook(id) ==
  LET hits == SelectSeq(books, LAMBDA b : b.id = id)
  IN IF hits = <<>> THEN <<>> ELSE <<Head(hits)>>

\* the for-of loop over the event path; a node is <<>> (no dataset.preview) or <<id>>
RECURSIVE pathLoop(_, _)
pathLoop(pathArray, active) ==
  IF pathArray = <<>> \/ active # <<>> THEN active
  ELSE pathLoop(Tail(pathArray),
                IF Head(pathArray) # <<>>
                THEN findActiveBook(Head(pathArray)[1])
                ELSE active)

\* mutant: the overlay is opened whether or not an entry was found
handleListItemClick_alwaysOpens(pathArray) ==
  LET active == pathLoop(pathArray, <<>>)
  IN /\ listActiveOpen' = TRUE
     /\ listActive' = IF active # <<>> THEN active ELSE listActive
     /\ error' = "none"
     /\ UNCHANGED <<searchOverlayOpen, settingsOverlayOpen>>
     /\ UNCHANGED <<catalogVars, themeVars, envVars>>

handleListItemClick(pathArray) ==
  LET active == pathLoop(pathArray, <<>>)
  IN /\ IF active # <<>>
        THEN listActiveOpen' = TRUE /\ listActive' = active
        ELSE UNCHANGED <<listActiveOpen, listActive>>
     /\ error' = "none"
     /\ UNCHANGED <<searchOverlayOpen, settingsOverlayOpen>>
     /\ UNCHANGED <<catalogVars, themeVars, envVars>>

searchCancelClick ==
  /\ searchOverlayOpen' = FALSE
  /\ error' = "none"
  /\ UNCHANGED <<settingsOverlayOpen, listActiveOpen, listActive>>
  /\ UNCHANGED <<catalogVars, themeVars, envVars>>

\* mutant: cancelling the settings closes every overlay
settingsCancelClick_closesAll ==
  /\ settingsOverlayOpen' = FALSE
  /\ searchOverlayOpen' = FALSE
  /\ listActiveOpen' = FALSE
  /\ error' = "none"
  /\ UNCHANGED listActive
  /\ UNCHANGED <<catalogVars, themeVars, envVars>>

settingsCancelClick ==
  /\ settingsOverlayOpen' = FALSE
  /\ error' = "none"
  /\ UNCHANGED <<searchOverlayOpen, listActiveOpen, listActive>>
  /\ UNCHANGED <<catalogVars, themeVars, envVars>>

headerSearchClick ==
  /\ searchOverlayOpen' = TRUE
  /\ error' = "none"
  /\ UNCHANGED <<settingsOverlayOpen, listActiveOpen, listActive>>
  /\ UNCHANGED <<catalogVars, themeVars, envVars>>

headerSettingsClick ==
  /\ settingsOverlayOpen' = TRUE
  /\ error' = "none"
  /\ UNCHANGED <<searchOverlayOpen, listActiveOpen, listActive>>
  /\ UNCHANGED <<catalogVars, themeVars, envVars>>

listCloseClick ==
  /\ listActiveOpen' = FALSE
  /\ error' = "none"
  /\ UNCHANGED <<searchOverlayOpen, settingsOverlayOpen, listActive>>
  /\ UNCHANGED <<catalogVars, themeVars, envVars>>

\* the preview tags a node of an event path may carry: none, an id no entry
\* has, or the id of the first or of the last entry of the catalog
PathNodes ==
  {<<>>, <<UnknownId>>} \cup {<<books[i].id>> : i \in {1, Len(books)} \cap (1..Len(books))}

Paths == UNION {[1..n -> PathNodes] : n \in 1..MaxPath}

SearchSubmit == \E entered \in Entered : handleSearchFormSubmit(entered)
SettingsSubmit == \E theme \in Themes : handleSettingsFormSubmit(theme)
ListItemClick == \E pathArray \in Paths : handleListItemClick(pathArray)

Next ==
  \/ SearchSubmit
  \/ handleShowMoreButtonClick
  \/ SettingsSubmit
  \/ ListItemClick
  \/ searchCancelClick
  \/ settingsCancelClick
  \/ headerSearchClick
  \/ headerSettingsClick
  \/ listCloseClick

\* every handler, on the longest and on the empty catalog, under a host that
\* starts the page in the day and one that starts it in the night theme
Init == Loaded({Pick(1..MaxBooks, 1), <<>>}, {"absent", "dark"}, {FieldNames})

Spec == Init /\ [][Next]_vars

\* search and show-more (with the search overlay they close), on every catalog,
\* under a host that starts the page in the day and one that starts it in the
\* night theme
NextCatalog ==
  \/ SearchSubmit
  \/ handleShowMoreButtonClick
  \/ headerSearchClick
  \/ searchCancelClick

InitCatalog == Loaded(Catalogs, {"absent", "dark"}, {FieldNames})

SpecCatalog == InitCatalog /\ [][NextCatalog]_vars

\* the same on a page whose search form lacks some of its fields
InitMalformed == Loaded(Catalogs, {"absent", "dark"}, (SUBSET FieldNames) \ {FieldNames})

SpecMalformed == InitMalformed /\ [][NextCatalog]_vars

\* the theme alone: the settings form and its overlay, on every catalog and
\* under every answer of the host about the preferred colour scheme
NextTheme ==
  \/ SettingsSubmit
  \/ headerSettingsClick
  \/ settingsCancelClick

InitTheme == Loaded(Catalogs, Signals, {FieldNames})

SpecTheme == InitTheme /\ [][NextTheme]_vars

\* ================================================================= claims
Range(seq) == {seq[i] : i \in 1..Len(seq)}

\* sub is obtained from full by deleting entries, the rest kept in order
RECURSIVE IsSubsequence(_, _)
IsSubsequence(sub, full) ==
  IF sub = <<>> THEN TRUE
  ELSE IF full = <<>> THEN FALSE
  ELSE IF Head(sub) = Head(full) THEN IsSubsequence(Tail(sub), Tail(full))
  ELSE IsSubsequence(sub, Tail(full))

WellFormed(f) == DOMAIN f = FieldNames

\* t occurs in s when letter case is ignored
ContainsIgnoringCase(s, t) ==
  \E i \in 1..(Len(s) + 1) : \E j \in (i - 1)..Len(s) :
    /\ j - i + 1 = Len(t)
    /\ \A k \in 1..Len(t) : LowerChar(s[i + k - 1]) = LowerChar(t[k])

TitleConstraint(book, f) ==
  trim(f.title) = <<>> \/ ContainsIgnoringCase(book.title, f.title)
AuthorConstraint(book, f) == f.author = "any" \/ f.author = book.author
GenreConstraint(book, f) == f.genre = "any" \/ f.genre \in Range(book.genres)

\* the elements drawn for the first n entries of m
Drawn(m, n) ==
  [i \in 1..n |-> [preview |-> m[i].id, title |-> m[i].title, author |-> m[i].author]]

\* C1: the result of applyFilters for well-formed criteria is a subsequence of
\* the catalog in the catalog's order, and holds an entry if and only if the
\* title, the author and the genre constraint all pass for it.
C1_FilterSelectsInOrder ==
  (filters # <<>> /\ WellFormed(filters[1])) =>
    LET f == filters[1] IN
    /\ IsSubsequence(matches, books)
    /\ \A i \in 1..Len(books) :
         books[i] \in Range(matches) <=>
           (/\ TitleConstraint(books[i], f)
            /\ AuthorConstraint(books[i], f)
            /\ GenreConstraint(books[i], f))

\* a search on title, author and genre kept two entries in order and dropped others
C1_Witness ==
  /\ filters # <<>>
  /\ trim(filters[1].title) # <<>>
  /\ filters[1].author = "any"
  /\ filters[1].genre # "any"
  /\ Len(matches) = 2
  /\ Len(books) > 3

\* C2: the list shows exactly the first rendered_count entries of the matched
\* set, rendered_count = min(page * BOOKS_PER_PAGE, |matches|), between 0 and
\* |matches|.
RenderedCount == Min(page * BOOKS_PER_PAGE, Len(matches))

C2_ListIsRenderedPrefix ==
  /\ 0 <= RenderedCount
  /\ RenderedCount <= Len(matches)
  /\ listItems = Drawn(matches, RenderedCount)

\* after a search, show-more has run past the end of a matched set that ends in a part page
C2_Witness ==
  /\ filters # <<>>
  /\ page >= 3
  /\ Len(matches) % BOOKS_PER_PAGE # 0
  /\ page * BOOKS_PER_PAGE > Len(matches) + BOOKS_PER_PAGE
  /\ Len(listItems) = Len(matches)

\* this step is a search submit of well-formed criteria: the handler leaves the
\* criteria it was given in filters, so they are the only ones to try
SearchSubmitted ==
  /\ filters' # <<>>
  /\ filters'[1] \in Entered
  /\ handleSearchFormSubmit(filters'[1])

\* C3: page is an integer >= 1 in every state; a search submit sets page to 1
\* in the step that replaces matches; a show-more click adds exactly 1 to page
\* and leaves matches unchanged.
C3_PageCursor ==
  /\ [](page \in Nat /\ page >= 1)
  /\ [][/\ SearchSubmitted => page' = 1
        /\ matches' # matches => page' = 1
        /\ handleShowMoreButtonClick => (page' = page + 1 /\ matches' = matches)]_vars

\* show-more twice after a search that narrowed the catalog
C3_Witness ==
  /\ filters # <<>>
  /\ matches # books
  /\ matches # <<>>
  /\ page = 3
  /\ Len(windows) = 2

\* the entry positions (from 0) inside the window (start, end)
WindowSet(w) == w[1]..(w[2] - 1)
WindowsUnion == UNION {WindowSet(windows[k]) : k \in 1..Len(windows)}
WindowsDisjoint ==
  \A j, k \in 1..Len(windows) :
    j # k => WindowSet(windows[j]) \cap WindowSet(windows[k]) = {}
FirstSliceAfterReset ==
  page = 1 => listItems = Drawn(matches, Min(BOOKS_PER_PAGE, Len(matches)))

\* C4 as stated: the first slice covers [0, min(P, L)); the k show-more windows
\* are pairwise disjoint and, when L >= kP, their union covers [0, kP).
C4_AsStated ==
  /\ FirstSliceAfterReset
  /\ WindowsDisjoint
  /\ Len(matches) >= Len(windows) * BOOKS_PER_PAGE =>
       (0..(Len(windows) * BOOKS_PER_PAGE - 1)) \subseteq WindowsUnion

\* C4 (amended): the first slice covers [0, min(P, L)); the k show-more windows
\* are pairwise disjoint and their union is [P, (k+1)P), so that together with
\* the first slice they cover [0, (k+1)P) when L >= (k+1)P.
C4_WindowsTile ==
  LET k == Len(windows) IN
  /\ FirstSliceAfterReset
  /\ WindowsDisjoint
  /\ WindowsUnion = BOOKS_PER_PAGE..((k + 1) * BOOKS_PER_PAGE - 1)
  /\ page = k + 1
  /\ Len(matches) >= (k + 1) * BOOKS_PER_PAGE =>
       listItems = Drawn(matches, (k + 1) * BOOKS_PER_PAGE)

\* show-more has run on a matched set that fills the first and the second page
C4_Witness ==
  /\ Len(windows) >= 1
  /\ Len(matches) >= 2 * BOOKS_PER_PAGE
  /\ Len(listItems) >= 2 * BOOKS_PER_PAGE

\* C5: a show-more click raises no error; it appends the remaining entries when
\* fewer than BOOKS_PER_PAGE remain, nothing when the window starts at or past
\* the end of matches, and the next BOOKS_PER_PAGE entries otherwise.
C5_ShowMoreAtTheEnd ==
  [][handleShowMoreButtonClick =>
       LET L == Len(matches)
           start == page * BOOKS_PER_PAGE
           tail == [i \in 1..(L - start) |-> Drawn(matches, L)[start + i]]
       IN /\ error' = "none"
          /\ start >= L => listItems' = listItems
          /\ (start < L /\ L - start < BOOKS_PER_PAGE) => listItems' = listItems \o tail
          /\ L - start >= BOOKS_PER_PAGE =>
               listItems' = listItems \o SubSeq(tail, 1, BOOKS_PER_PAGE)
          /\ Len(listItems') <= L]_vars

\* the last show-more drew a part page: its window starts inside matches and ends past it
C5_Witness ==
  /\ windows # <<>>
  /\ windows[Len(windows)][1] < Len(matches)
  /\ Len(matches) < windows[Len(windows)][2]
  /\ Len(listItems) = Len(matches)
  /\ error = "none"

TrimmedTitleConstraint(book, f) ==
  trim(f.title) = <<>> \/ ContainsIgnoringCase(book.title, trim(f.title))

\* the two titles differ only in letter case and in leading or trailing spaces
SameTitle(t, u) == toLowerCase(trim(t)) = toLowerCase(trim(u))

\* C6 as stated: an entry passes the title constraint if and only if the
\* trimmed criteria title is empty or occurs in the entry's title, case
\* ignored; so criteria whose titles differ only in case or in leading or
\* trailing spaces select the same entries.
C6_AsStated ==
  (filters # <<>> /\ WellFormed(filters[1])) =>
    LET f == filters[1] IN
    /\ \A i \in 1..Len(books) :
         books[i] \in Range(matches) <=>
           (/\ TrimmedTitleConstraint(books[i], f)
            /\ AuthorConstraint(books[i], f)
            /\ GenreConstraint(books[i], f))
    /\ \A t \in SearchTitles :
         SameTitle(t, f.title) => applyFilters([f EXCEPT !.title = t]).value = matches

\* what the criteria would be with each missing field set to its default
WithDefaults(f) ==
  [title |-> IF Has(f, "title") THEN f.title ELSE <<>>,
   author |-> IF Has(f, "author") THEN f.author ELSE "any",
   genre |-> IF Has(f, "genre") THEN f.genre ELSE "any"]

\* C7 as stated: a search submit whose criteria lack a field raises no error
\* and selects what the criteria with the defaults filled in select.
C7_AsStated ==
  /\ error = "none"
  /\ filters # <<>> => matches = applyFilters(WithDefaults(filters[1])).value

\* this step submits again the criteria of the search before it
Resubmitted ==
  /\ filters # <<>>
  /\ filters[1] \in Entered
  /\ handleSearchFormSubmit(filters[1])

\* C8: submitting the criteria of the last search again leaves matches as it
\* is, page at 1 and the list at the first page of matches, which is what the
\* first submit left.
C8_ResubmitIsIdempotent ==
  [][Resubmitted =>
       /\ matches' = matches
       /\ page' = 1
       /\ listItems' = Drawn(matches, Min(BOOKS_PER_PAGE, Len(matches)))
       /\ (page = 1 => listItems' = listItems)
       /\ listMessageShow' = listMessageShow]_vars

\* a search has left more than one page of matches, with the first page drawn
C8_Witness ==
  /\ filters # <<>>
  /\ page = 1
  /\ windows = <<>>
  /\ matches # books
  /\ Len(matches) > BOOKS_PER_PAGE
  /\ Len(listItems) = BOOKS_PER_PAGE

MatchAll == [title |-> <<>>, author |-> "any", genre |-> "any"]

\* C9: the criteria {title: "", author: "any", genre: "any"} select the whole
\* catalog in order, and submitting them sets matches to the catalog, page to 1
\* and the list to the first page of the catalog.
C9_MatchAllRestoresCatalog ==
  /\ [](filters = <<MatchAll>> => matches = books)
  /\ [][handleSearchFormSubmit(MatchAll) =>
          /\ matches' = books
          /\ page' = 1
          /\ listItems' = Drawn(books, Min(BOOKS_PER_PAGE, Len(books)))]_vars

\* the match-all criteria were submitted on a catalog longer than a page
C9_Witness ==
  /\ filters = <<MatchAll>>
  /\ matches = books
  /\ Len(books) > BOOKS_PER_PAGE
  /\ page = 1
  /\ Len(listItems) = BOOKS_PER_PAGE

\* C10: after a search submit matches is the filter result, the list is page 1
\* of it and nothing else, the "no results" message shows if and only if
\* matches is empty, and the search overlay is closed.
C10_AfterSearchSubmit ==
  [][SearchSubmitted =>
       /\ matches' = applyFilters(filters'[1]).value
       /\ listItems' = Drawn(matches', Min(BOOKS_PER_PAGE, Len(matches')))
       /\ listMessageShow' = (Len(matches') < 1)
       /\ searchOverlayOpen' = FALSE]_vars

\* a search on a non-empty catalog found nothing
C10_Witness ==
  /\ filters # <<>>
  /\ books # <<>>
  /\ matches = <<>>
  /\ listItems = <<>>
  /\ listMessageShow
  /\ ~searchOverlayOpen
  /\ page = 1

IsPrefix(short, long) ==
  Len(short) <= Len(long) /\ SubSeq(long, 1, Len(short)) = short

\* C17: a show-more click only appends: the list before the click is a prefix
\* of the list after it; matches, the theme, the "no results" message and the
\* open-state of every overlay stay as they are.
C17_ShowMoreOnlyAppends ==
  [][handleShowMoreButtonClick =>
       /\ IsPrefix(listItems, listItems')
       /\ matches' = matches
       /\ UNCHANGED <<themeValue, colorDark, colorLight>>
       /\ listMessageShow' = listMessageShow
       /\ UNCHANGED <<searchOverlayOpen, settingsOverlayOpen, listActiveOpen>>]_vars

\* show-more has added a second page below the first while the night theme
\* is applied and the detail overlay is open
C17_Witness ==
  /\ page >= 2
  /\ Len(listItems) > BOOKS_PER_PAGE
  /\ themeValue = "night"
  /\ listActiveOpen

\* the first node of the path that carries a tag, <<>> when none does
RECURSIVE NearestTag(_)
NearestTag(pathArray) ==
  IF pathArray = <<>> THEN <<>>
  ELSE IF Head(pathArray) # <<>> THEN Head(pathArray)
  ELSE NearestTag(Tail(pathArray))

EntriesWithId(id) == {b \in Range(books) : b.id = id}

UntaggedPaths == UNION {[1..n -> {<<>>}] : n \in 1..MaxPath}

\* C12: a click whose path has no tagged node changes nothing: no error, the
\* detail overlay as open or closed as before with the same contents, and
\* matches, page and the list as before.
C12_UntaggedClickIsNoOp ==
  [][\A pathArray \in UntaggedPaths :
       handleListItemClick(pathArray) =>
         /\ error' = "none"
         /\ UNCHANGED <<listActiveOpen, listActive>>
         /\ UNCHANGED <<matches, page, listItems>>]_vars

\* the detail overlay was opened and closed again, on the second page of a search
C12_Witness ==
  /\ ~listActiveOpen
  /\ listActive # <<>>
  /\ filters # <<>>
  /\ page = 2
  /\ listItems # <<>>
  /\ error = "none"

C14_AsStated ==
  Len(listItems) >= Len(matches) => listButtonDisabled

\* the palette the claim gives for a theme: <<darkColor, lightColor>>
PaletteOf(theme) ==
  IF theme = "night" THEN <<"255, 255, 255", "10, 10, 20">>
  ELSE <<"10, 10, 20", "255, 255, 255">>

\* C15: the palette is a function of the theme, (255,255,255) over (10,10,20)
\* for "night" and the two swapped for "day"; the style variables always carry
\* the palette of the theme control's value, and after a settings submit that
\* value is the submitted theme.
C15_ThemePalette ==
  /\ [](/\ darkColorOf("night") = lightColorOf("day")
        /\ lightColorOf("night") = darkColorOf("day")
        /\ darkColorOf("night") # darkColorOf("day")
        /\ themeValue \in Themes
        /\ <<colorDark, colorLight>> = PaletteOf(themeValue))
  /\ [][\A theme \in Themes :
          handleSettingsFormSubmit(theme) =>
            /\ themeValue' = theme
            /\ <<colorDark', colorLight'>> = PaletteOf(theme)]_vars

\* the night theme was submitted on a host that prefers light
C15_Witness ==
  /\ ambient = "light"
  /\ themeValue = "night"
  /\ colorDark = "255, 255, 255"
  /\ colorLight = "10, 10, 20"
  /\ ~settingsOverlayOpen

\* C16: the page starts in the "night" theme exactly when the host answers
\* the colour-scheme query and prefers dark, and in "day" otherwise, without
\* an error when the query is absent; the theme changes afterwards only by a
\* settings submit.
C16_InitialTheme ==
  /\ themeValue = (IF ambient = "dark" THEN "night" ELSE "day")
  /\ <<colorDark, colorLight>> = PaletteOf(themeValue)
  /\ error = "none"
  /\ [][themeValue' # themeValue => SettingsSubmit]_vars

\* a host without the colour-scheme query shows the day theme, no settings
\* having been opened
C16_Witness ==
  /\ ambient = "absent"
  /\ themeValue = "day"
  /\ colorDark = "10, 10, 20"
  /\ error = "none"
  /\ ~settingsOverlayOpen

\* C18: a settings submit and every open, cancel and close handler of an
\* overlay leave the matched set, the page cursor and the rendered list as
\* they were; a cancel or close only sets the open-state of its own overlay
\* to false; a search submit or a show-more click leaves the theme and its
\* palette as they were.
C18_ThemeAndOverlaysApart ==
  [][/\ \/ UNCHANGED <<matches, page, listItems>>
        \/ ~(\/ SettingsSubmit
             \/ headerSearchClick \/ headerSettingsClick
             \/ searchCancelClick \/ settingsCancelClick \/ listCloseClick)
     /\ searchCancelClick =>
          ~searchOverlayOpen' /\ UNCHANGED <<settingsOverlayOpen, listActiveOpen>>
     /\ settingsCancelClick =>
          ~settingsOverlayOpen' /\ UNCHANGED <<searchOverlayOpen, listActiveOpen>>
     /\ listCloseClick =>
          ~listActiveOpen' /\ UNCHANGED <<searchOverlayOpen, settingsOverlayOpen>>
     /\ \/ UNCHANGED <<themeValue, colorDark, colorLight>>
        \/ ~(SearchSubmitted \/ handleShowMoreButtonClick)]_vars

\* the theme was changed and the settings cancelled while a filtered list on
\* its second page and the search overlay were showing
C18_Witness ==
  /\ themeValue # detectTheme(ambient)
  /\ filters # <<>>
  /\ page = 2
  /\ listItems # <<>>
  /\ searchOverlayOpen
  /\ ~settingsOverlayOpen

\* C19: no handler changes the catalog's entries or their order, although
\* matches starts as the catalog array itself and not as a copy.
C19_CatalogReadOnly == [][books' = books]_vars

\* show-more has read beyond the first page from the array that is both
\* matches and the catalog, and the catalog is whole
C19_Witness ==
  /\ matchesIsBooks
  /\ matches = books
  /\ page >= 2
  /\ Len(listItems) > BOOKS_PER_PAGE
  /\ Len(books) = MaxBooks

====
